---- MODULE Spec2Model ----
(***************************************************************************)
(* Model of the box algebra (util/bbox.py), the tile folding of            *)
(* data/neuron_mask.py and the two volume assemblers of data/util/tile.py. *)
(* Each subsystem has its own specification; the variables of the other    *)
(* subsystems stay at their idle values.                                   *)
(***************************************************************************)
EXTENDS Integers, Sequences, FiniteSets, TLC

VARIABLES
    tiles,      \* merge: per-tile box tables read from the bbox folder (file index -> rows)
    parts,      \* merge: tables not yet folded in, each with the tile files it stands for
    out,        \* merge: the running table `out` of merge_bbox_tile
    folded,     \* merge: tile files already folded into out
    last,       \* merge: the latest merge_bbox_two_matrices call (arguments and result)
    ret,        \* merge: how merge_bbox_tile ended: the ratio and the table it returned
    seg,        \* bbox: the label map passed to compute_bbox_all (shape and values)
    uid,        \* bbox: the uid argument (None or an array of ids)
    bbres,      \* bbox: what the call returned or raised
    req,        \* tile: the arguments of read_tile_image_by_bbox
    absent,     \* tile: the tile files <<z, row, column>> that do not exist
    corrupt,    \* tile: the tile files that exist but whose read raises
    fid,        \* tile: the output container: "none" / "open" / "closed"
    result,     \* tile: the array `result`, one slice per requested z
    iz,         \* tile: the index i of the next iteration of the loop over z
    assembled,  \* tile: `result` as it was when the loop over z ended
    tstat,      \* tile: "loop", or how the call ended: "returned" / "ValueError" / "OSError"
    hreq,       \* h5: the arguments of read_tile_h5_by_bbox
    labels,     \* h5: the local ids stored in each chunk file <<zid, yid, xid>>
    habsent,    \* h5: the chunk files that do not exist
    hcorrupt,   \* h5: the chunk files that exist but whose open raises
    fid_out,    \* h5: the output container: "none" / "open" / "closed"
    hres,       \* h5: the array `result` (the whole region, or the rolling buffer)
    mid,        \* h5: the running maximum of the id accumulation
    emitted,    \* h5: the per-slice images written so far, by absolute z
    hz,         \* h5: the number of z-blocks of range(d0, d1) already processed
    hcomp,      \* h5: per-slice-image mode: each slab's slices as composited, before the
                \*     mask, by absolute z
    hlog,       \* h5: per chunk composited: the positive values written and mid before/after
    hstat       \* h5: "loop", or how the call ended: "returned" / "TypeError" /
                \*     "ValueError" / "OSError"

mergeVars == <<tiles, parts, out, folded, last, ret>>
bboxVars == <<seg, uid, bbres>>
tileVars == <<req, absent, corrupt, fid, result, iz, assembled, tstat>>
h5Vars ==
    <<hreq, labels, habsent, hcorrupt, fid_out, hres, mid, emitted, hz, hcomp, hlog, hstat>>
vars == <<mergeVars, bboxVars, tileVars, h5Vars>>

\* the values of a subsystem's variables while another subsystem runs
MergeIdle ==
    tiles = <<>> /\ parts = {} /\ out = <<>> /\ folded = {} /\ last = <<>> /\ ret = <<>>
BBoxIdle == seg = <<>> /\ uid = <<>> /\ bbres = <<>>
H5Idle ==
    /\ hreq = <<>> /\ labels = <<>> /\ habsent = {} /\ hcorrupt = {} /\ fid_out = ""
    /\ hres = <<>> /\ mid = 0
    /\ emitted = <<>> /\ hz = 0 /\ hcomp = <<>> /\ hlog = <<>> /\ hstat = ""
TileIdle ==
    /\ req = <<>> /\ absent = {} /\ corrupt = {} /\ fid = ""
    /\ result = <<>> /\ iz = 0 /\ assembled = <<>> /\ tstat = ""

----------------------------------------------------------------------------
(* Generic helpers *)

Min2(a, b) == IF a <= b THEN a ELSE b
Max2(a, b) == IF a >= b THEN a ELSE b

SetMin(S) == CHOOSE m \in S : \A n \in S : m <= n
SetMax(S) == CHOOSE m \in S : \A n \in S : m >= n

RECURSIVE SortedSeq(_)
\* the ascending sequence of a finite set of integers (np.unique order)
SortedSeq(S) == IF S = {} THEN <<>> ELSE <<SetMin(S)>> \o SortedSeq(S \ {SetMin(S)})

\* rows of a sequence kept where keep[i] holds (numpy boolean-mask indexing)
RECURSIVE MaskRows(_, _, _)
MaskRows(rows, keep, i) ==
    IF i > Len(rows) THEN <<>>
    ELSE (IF keep[i] THEN <<rows[i]>> ELSE <<>>) \o MaskRows(rows, keep, i + 1)

----------------------------------------------------------------------------
(* Box tables: a table is None or a matrix, one row <<id, min, max, ...>> per box *)

NoneT == [isNone |-> TRUE, rows |-> <<>>]
Tab(rows) == [isNone |-> FALSE, rows |-> rows]

IdsOf(t) == {t.rows[i][1] : i \in 1..Len(t.rows)}
UniqueIds(t) == \A i, j \in 1..Len(t.rows) : t.rows[i][1] = t.rows[j][1] => i = j
RowOf(t, id) == t.rows[CHOOSE i \in 1..Len(t.rows) : t.rows[i][1] = id]
\* a table read as a mapping id -> box (the row without its id)
AsMap(t) == [id \in IdsOf(t) |-> Tail(RowOf(t, id))]

\* merge_bbox: the smallest box containing both (min of the mins, max of the maxes)
merge_bbox(bbox_a, bbox_b) ==
    [k \in 1..Len(bbox_a) |->
        IF k % 2 = 1 THEN Min2(bbox_a[k], bbox_b[k]) ELSE Max2(bbox_a[k], bbox_b[k])]

\* MergeLoop with the box of A written over B's row instead of the merged box
RECURSIVE MergeLoopOverwrite(_, _, _, _)
MergeLoopOverwrite(arows, brows, idx, aliased) ==
    IF idx = <<>> THEN brows
    ELSE LET i == Head(idx)
             b2 == [j \in 1..Len(brows) |->
                       IF brows[j][1] = arows[i][1] THEN arows[i] ELSE brows[j]]
         IN MergeLoopOverwrite(arows, b2, Tail(idx), aliased)

\* the loop over the rows of A whose id is in B; B is updated in place, and when
\* both arguments are the same array the rows of A are read from the updated B
RECURSIVE MergeLoop(_, _, _, _)
MergeLoop(arows, brows, idx, aliased) ==
    IF idx = <<>> THEN brows
    ELSE LET i == Head(idx)
             cur_a == IF aliased THEN brows ELSE arows
             bbox_a == Tail(cur_a[i])
             hit == [j \in 1..Len(brows) |-> brows[j][1] = cur_a[i][1]]
             jb == CHOOSE j \in 1..Len(brows) : hit[j] /\ \A m \in 1..(j - 1) : ~hit[m]
             merged == merge_bbox(bbox_a, Tail(brows[jb]))
             b2 == [j \in 1..Len(brows) |->
                       IF hit[j] THEN <<brows[j][1]>> \o merged ELSE brows[j]]
         IN MergeLoop(arows, b2, Tail(idx), aliased)

\* merge_bbox_two_matrices without the logical_not filter on the rows of A
merge_bbox_two_matrices_keepall(a, b, aliased) ==
    IF a.isNone THEN b
    ELSE IF b.isNone THEN a
    ELSE LET intersect_id == [i \in 1..Len(a.rows) |->
                                 \E j \in 1..Len(b.rows) : b.rows[j][1] = a.rows[i][1]]
             where == SortedSeq({i \in 1..Len(a.rows) : intersect_id[i]})
         IN IF where = <<>>
            THEN Tab(a.rows \o b.rows)
            ELSE Tab((IF aliased THEN MergeLoop(a.rows, b.rows, where, aliased) ELSE a.rows)
                     \o MergeLoop(a.rows, b.rows, where, aliased))

\* merge_bbox_two_matrices with the loop over the shared ids left out
merge_bbox_two_matrices_noloop(a, b, aliased) ==
    IF a.isNone THEN b
    ELSE IF b.isNone THEN a
    ELSE LET keep == [i \in 1..Len(a.rows) |->
                         ~\E j \in 1..Len(b.rows) : b.rows[j][1] = a.rows[i][1]]
         IN Tab(MaskRows(a.rows, keep, 1) \o b.rows)

\* merge_bbox_two_matrices(a, b); aliased: a and b are the same array object
merge_bbox_two_matrices(a, b, aliased) ==
    IF a.isNone THEN b
    ELSE IF b.isNone THEN a
    ELSE LET intersect_id == [i \in 1..Len(a.rows) |->
                                 \E j \in 1..Len(b.rows) : b.rows[j][1] = a.rows[i][1]]
             where == SortedSeq({i \in 1..Len(a.rows) : intersect_id[i]})
         IN IF where = <<>>
            THEN Tab(a.rows \o b.rows)
            ELSE LET b2 == MergeLoop(a.rows, b.rows, where, aliased)
                     a2 == IF aliased THEN b2 ELSE a.rows
                     keep == [i \in 1..Len(a.rows) |-> ~intersect_id[i]]
                 IN Tab(MaskRows(a2, keep, 1) \o b2)

----------------------------------------------------------------------------
(* Folding the per-tile tables (merge_bbox_tile) *)

MaxCoord == 1
MaxRows == 3
TileIdx == {1, 2, 3}
Ids == {1, 2}

\* a box over the three axes z, y, x of a tile table; the y axis is the mirror
\* image of the z axis, so that both the min columns and the max columns move
\* in both directions, and the x axis repeats the z axis
WellBoxes ==
    {b \in {<<lo, hi, MaxCoord - hi, MaxCoord - lo, lo, hi>> :
                lo \in 0..MaxCoord, hi \in 0..MaxCoord} :
        b[1] <= b[2]}

\* the tables a tile file can hold: ascending unique ids (compute_bbox_all's
\* row order), possibly none (an empty file)
TileTables ==
    UNION {{[k \in 1..Cardinality(S) |-> <<SortedSeq(S)[k]>> \o g[SortedSeq(S)[k]]] :
               g \in [S -> WellBoxes]} : S \in SUBSET Ids}

TotalRows(ts) == Len(ts[1]) + Len(ts[2]) + Len(ts[3])

\* a number that orders the tables: the file list of merge_bbox_tile is taken
\* in every order, so the tile tables are drawn up to a permutation of the files
RECURSIVE TabCode(_)
TabCode(rows) ==
    IF rows = <<>> THEN 0
    ELSE 1 + rows[1][1] + 10 * rows[1][2] + 100 * rows[1][3] + 1000 * TabCode(Tail(rows))

NoReturn == [kind |-> "none", ratio |-> 1, table |-> NoneT]

MaxRatio == 2

\* a row after out[:,3::2] = out[:,3::2]//ratio*ratio and
\* out[:,4::2] = (out[:,4::2]+ratio-1)//ratio*ratio - 1 (columns counted from 0;
\* row[k] is column k - 1)
RoundRow(row, ratio) ==
    [k \in 1..Len(row) |->
        IF k >= 4 /\ k % 2 = 0 THEN (row[k] \div ratio) * ratio
        ELSE IF k >= 5 /\ k % 2 = 1 THEN ((row[k] + ratio - 1) \div ratio) * ratio - 1
        ELSE row[k]]

NoCall == [kind |-> "none", a |-> NoneT, b |-> NoneT, r |-> NoneT]

InitMerge ==
    /\ tiles \in {ts \in [TileIdx -> TileTables] :
                     /\ TotalRows(ts) <= MaxRows
                     /\ TabCode(ts[1]) >= TabCode(ts[2])
                     /\ TabCode(ts[2]) >= TabCode(ts[3])}
    /\ parts = {[tab |-> tiles[i], mem |-> {i}] : i \in TileIdx}
    /\ out = NoneT
    /\ folded = {}
    /\ last = NoCall
    /\ ret = NoReturn
    /\ BBoxIdle /\ TileIdle /\ H5Idle

\* one iteration of the loop of merge_bbox_tile: an empty file is skipped,
\* any other table is merged into out (as a copy)
FoldTile ==
    \E p \in parts :
        /\ parts' = parts \ {p}
        /\ folded' = folded \cup p.mem
        /\ IF Len(p.tab) > 0
           THEN LET r == merge_bbox_two_matrices(out, Tab(p.tab), FALSE)
                IN /\ out' = r
                   /\ last' = [kind |-> "fold", a |-> out, b |-> Tab(p.tab), r |-> r]
           ELSE UNCHANGED <<out, last>>
        /\ UNCHANGED <<tiles, ret, bboxVars, tileVars, h5Vars>>

\* two tables not yet folded in are merged with each other first
GroupTiles ==
    \E p, q \in parts :
        /\ p # q /\ Len(p.tab) > 0 /\ Len(q.tab) > 0
        /\ LET r == merge_bbox_two_matrices(Tab(p.tab), Tab(q.tab), FALSE)
           IN /\ parts' = (parts \ {p, q}) \cup {[tab |-> r.rows, mem |-> p.mem \cup q.mem]}
              /\ last' = [kind |-> "group", a |-> Tab(p.tab), b |-> Tab(q.tab), r |-> r]
        /\ UNCHANGED <<tiles, out, folded, ret, bboxVars, tileVars, h5Vars>>

\* a table merged with itself: both arguments are the same array
MergeSelf ==
    \E x \in {out} \ {NoneT} :
        /\ parts = {}
        /\ last.kind \notin {"self", "refold"}
        /\ ret.kind = "none"
        /\ last' = [kind |-> "self", a |-> x, b |-> x,
                    r |-> merge_bbox_two_matrices(x, x, TRUE)]
        /\ UNCHANGED <<tiles, parts, out, folded, ret, bboxVars, tileVars, h5Vars>>

\* a tile that was already folded in is merged into the running table again
Refold ==
    \E i \in folded :
        /\ Len(tiles[i]) > 0
        /\ parts = {}
        /\ last.kind \notin {"self", "refold"}
        /\ ret.kind = "none"
        /\ LET r == merge_bbox_two_matrices(out, Tab(tiles[i]), FALSE)
           IN /\ out' = r
              /\ last' = [kind |-> "refold", a |-> out, b |-> Tab(tiles[i]), r |-> r]
        /\ UNCHANGED <<tiles, parts, folded, ret, bboxVars, tileVars, h5Vars>>

\* the end of merge_bbox_tile, once the loop over the files is over: the table
\* is rounded to the ratio (a TypeError when no file had a row and out is still
\* None) and returned or saved
ReturnTable ==
    \E ratio \in 1..MaxRatio :
        /\ parts = {}
        /\ last.kind \notin {"self", "refold"}
        /\ ret.kind = "none"
        /\ ret' = IF ratio = 1 THEN [kind |-> "returned", ratio |-> ratio, table |-> out]
                  ELSE IF out.isNone
                       THEN [kind |-> "TypeError", ratio |-> ratio, table |-> out]
                       ELSE [kind |-> "returned", ratio |-> ratio,
                             table |-> Tab([i \in 1..Len(out.rows) |->
                                               RoundRow(out.rows[i], ratio)])]
        /\ UNCHANGED <<tiles, parts, out, folded, last, bboxVars, tileVars, h5Vars>>

NextMerge == FoldTile \/ GroupTiles \/ MergeSelf \/ Refold \/ ReturnTable

SpecMerge == InitMerge /\ [][NextMerge]_vars

\* the table merge_bbox_tile ends with when the files are listed in index order
RECURSIVE FoldInOrder(_, _)
FoldInOrder(acc, idx) ==
    IF idx = <<>> THEN acc
    ELSE FoldInOrder(IF Len(tiles[Head(idx)]) > 0
                     THEN merge_bbox_two_matrices(acc, Tab(tiles[Head(idx)]), FALSE)
                     ELSE acc, Tail(idx))

----------------------------------------------------------------------------
(* Bounding boxes of a label map (util/bbox.py) *)

MaxLabel == 2
MaxFg == 3

\* the shapes of the label maps: one 2D, one 3D, and two of an unsupported rank
Shape2D == <<2, 3>>
Shape3D == <<2, 2, 2>>
ShapesOther == {<<2>>, <<1, 1, 1, 1>>}

\* the index tuples of an array of the given shape (0-based, axis 0 first)
RECURSIVE Coords(_)
Coords(shape) ==
    IF shape = <<>> THEN {<<>>}
    ELSE {<<i>> \o c : i \in 0..(shape[1] - 1), c \in Coords(Tail(shape))}

\* the arrays of a shape with at most MaxFg positive entries
Arrays(shape) ==
    UNION {{[shape |-> shape,
             data |-> [c \in Coords(shape) |-> IF c \in S THEN g[c] ELSE 0]] :
               g \in [S -> 1..MaxLabel]} :
           S \in {T \in SUBSET Coords(shape) : Cardinality(T) <= MaxFg}}

ndim(a) == Len(a.shape)
Values(a) == {a.data[c] : c \in Coords(a.shape)}

\* the array seg == k, as 0/1
EqMask(a, k) == [shape |-> a.shape,
                 data |-> [c \in Coords(a.shape) |-> IF a.data[c] = k THEN 1 ELSE 0]]

\* compute_bbox(seg): None without foreground, else [min0, max0, min1, max1, ...]
compute_bbox(a) ==
    IF \A c \in Coords(a.shape) : a.data[c] = 0
    THEN [kind |-> "None", box |-> <<>>]
    ELSE LET pix_nonzero == {c \in Coords(a.shape) : a.data[c] > 0}
         IN [kind |-> "box",
             box |-> [k \in 1..(2 * ndim(a)) |->
                         IF k % 2 = 1 THEN SetMin({c[(k + 1) \div 2] : c \in pix_nonzero})
                                      ELSE SetMax({c[k \div 2] : c \in pix_nonzero})]]

\* AxisPass with the id filter sid < uid_max
RECURSIVE AxisPassStrict(_, _, _, _, _, _)
AxisPassStrict(o, a, axis, col, uid_max, v) ==
    IF v >= a.shape[axis] THEN o
    ELSE LET ids == {a.data[c] : c \in {d \in Coords(a.shape) : d[axis] = v}}
             sid == {x \in ids : x > 0 /\ x < uid_max}
             o2 == IF \E x \in ids : x > 0
                   THEN [i \in DOMAIN o |->
                            IF i \in sid
                            THEN [o[i] EXCEPT ![col] = Min2(@, v), ![col + 1] = Max2(@, v)]
                            ELSE o[i]]
                   ELSE o
         IN AxisPassStrict(o2, a, axis, col, uid_max, v + 1)

\* one of the loops "for each row / column / slice": every slice v along the
\* axis that has foreground tightens columns col (min) and col+1 (max) of the
\* ids found in it
RECURSIVE AxisPass(_, _, _, _, _, _)
AxisPass(o, a, axis, col, uid_max, v) ==
    IF v >= a.shape[axis] THEN o
    ELSE LET ids == {a.data[c] : c \in {d \in Coords(a.shape) : d[axis] = v}}
             sid == {x \in ids : x > 0 /\ x <= uid_max}
             o2 == IF \E x \in ids : x > 0
                   THEN [i \in DOMAIN o |->
                            IF i \in sid
                            THEN [o[i] EXCEPT ![col] = Min2(@, v), ![col + 1] = Max2(@, v)]
                            ELSE o[i]]
                   ELSE o
         IN AxisPass(o2, a, axis, col, uid_max, v + 1)

NoneU == [isNone |-> TRUE, ids |-> <<>>]
Uid(ids) == [isNone |-> FALSE, ids |-> ids]

compute_bbox_all_2d(a, u) ==
    LET uu == IF u.isNone THEN SortedSeq({x \in Values(a) : x > 0}) ELSE u.ids
    IN IF Len(uu) = 0
       THEN [kind |-> "None", rows |-> <<>>]
       ELSE LET uid_max == SetMax({uu[k] : k \in 1..Len(uu)})
                o0 == [i \in 0..uid_max |-> <<i, a.shape[1], 0, a.shape[2], 0>>]
                o1 == AxisPass(o0, a, 1, 2, uid_max, 0)
                o2 == AxisPass(o1, a, 2, 4, uid_max, 0)
            IN [kind |-> "table", rows |-> [k \in 1..Len(uu) |-> o2[uu[k]]]]

compute_bbox_all_3d(a, u) ==
    IF ~u.isNone /\ Len(u.ids) = 0
    THEN [kind |-> "ValueError", rows |-> <<>>]
    ELSE LET uid_max == IF u.isNone THEN SetMax(Values(a))
                        ELSE SetMax({u.ids[k] : k \in 1..Len(u.ids)})
             o0 == [i \in 0..uid_max |->
                       <<i, a.shape[1], -1, a.shape[2], -1, a.shape[3], -1>>]
             o1 == AxisPass(o0, a, 1, 2, uid_max, 0)
             o2 == AxisPass(o1, a, 2, 4, uid_max, 0)
             o3 == AxisPass(o2, a, 3, 6, uid_max, 0)
             valid == SortedSeq({i \in 0..uid_max : \A k \in 1..7 : o3[i][k] # -1})
         IN [kind |-> "table", rows |-> [k \in 1..Len(valid) |-> o3[valid[k]]]]

\* compute_bbox_all: dispatch on the rank; the else branch raises a str, which
\* Python answers with "TypeError: exceptions must derive from BaseException"
compute_bbox_all(a, u) ==
    IF ndim(a) = 2 THEN compute_bbox_all_2d(a, u)
    ELSE IF ndim(a) = 3 THEN compute_bbox_all_3d(a, u)
    ELSE [kind |-> "TypeError", rows |-> <<>>]

Pending == [kind |-> "pending", rows |-> <<>>]

UidChoices == {NoneU} \cup {Uid(SortedSeq(S)) : S \in SUBSET (1..(MaxLabel + 1))}

InitBBox ==
    /\ seg \in Arrays(Shape2D) \cup Arrays(Shape3D) \cup UNION {Arrays(sh) : sh \in ShapesOther}
    /\ uid \in UidChoices
    /\ bbres = Pending
    /\ MergeIdle /\ TileIdle /\ H5Idle

CallComputeBBoxAll ==
    /\ bbres = Pending
    /\ bbres' = compute_bbox_all(seg, uid)
    /\ UNCHANGED <<seg, uid, mergeVars, tileVars, h5Vars>>

NextBBox == CallComputeBBoxAll

SpecBBox == InitBBox /\ [][NextBBox]_vars

----------------------------------------------------------------------------
(* read_tile_image_by_bbox (data/util/tile.py): in-memory output, ratio 1,  *)
(* no relabel table, no volume_sz                                           *)

NumSlices == 3

\* tile_sz = [rows, columns] of a tile, and the number of tile rows and columns
tile_sz == <<2, 2>>
Grid == <<2, 2>>

FloorDiv(a, b) == a \div b
CeilDiv(a, b) == (a + b - 1) \div b

\* the image of tile (row, column) of slice z: every pixel of the stack has
\* its own positive value, pixel <<py, px>> being local to the tile
read_image(z, row, column) ==
    [q \in (0..(tile_sz[1] - 1)) \X (0..(tile_sz[2] - 1)) |->
        1 + (column * tile_sz[2] + q[2])
          + (Grid[2] * tile_sz[2]) * (row * tile_sz[1] + q[1])
          + (Grid[2] * tile_sz[2]) * (Grid[1] * tile_sz[1]) * z]

\* range(a, b, step) as a sequence
RECURSIVE PyRange(_, _, _)
PyRange(a, b, step) == IF a >= b THEN <<>> ELSE <<a>> \o PyRange(a + step, b, step)

\* the requests: a region inside the tile grid, z1 <= len(filenames)
Requests ==
    {[z0 |-> z0, z1 |-> z1, y0 |-> y0, y1 |-> y1, x0 |-> x0, x1 |-> x1,
      zstep |-> zstep, tile_blank |-> tb] :
        z0 \in 0..(NumSlices - 1), z1 \in 1..NumSlices,
        y0 \in 0..(Grid[1] * tile_sz[1] - 1), y1 \in 1..(Grid[1] * tile_sz[1]),
        x0 \in 0..(Grid[2] * tile_sz[2] - 1), x1 \in 1..(Grid[2] * tile_sz[2]),
        zstep \in {1, 2}, tb \in {"", "blank"}}

result_shape(r) == <<(r.z1 - r.z0 + r.zstep - 1) \div r.zstep, r.y1 - r.y0, r.x1 - r.x0>>

Zeros2(h, w) == [q \in (0..(h - 1)) \X (0..(w - 1)) |-> 0]

\* the z of the loop: z1 = min(len(filenames) - 1, z1); range(z0, z1, zstep)
LoopZ(r) == PyRange(r.z0, Min2(NumSlices - 1, r.z1), r.zstep)

\* the tile files of the slices S
TilesOfSlices(S) ==
    {t \in (0..(NumSlices - 1)) \X (0..(Grid[1] - 1)) \X (0..(Grid[2] - 1)) : t[1] \in S}

\* the state at the loop over z: the zero-filled result, and the output
\* container f ("none" when output_file is None, else "open")
TileStart(f) ==
    /\ fid = f
    /\ result = [i \in 1..result_shape(req)[1] |->
                    Zeros2(result_shape(req)[2], result_shape(req)[3])]
    /\ iz = 0
    /\ assembled = <<>>
    /\ tstat = "loop"
    /\ MergeIdle /\ BBoxIdle /\ H5Idle

\* in-memory output, every tile file that exists is readable
InitTile ==
    /\ req \in {r \in Requests : r.z0 < r.z1 /\ r.y0 < r.y1 /\ r.x0 < r.x1}
    /\ \E S \in SUBSET (0..(NumSlices - 1)) : absent = TilesOfSlices(S)
    /\ corrupt = {}
    /\ TileStart("none")

\* the body of the loops over row and column for one tile: the part of the
\* tile inside the region is copied into slice sl of the result
PasteTile(sl, r, z, row, column) ==
    IF <<z, row, column>> \in absent THEN sl
    ELSE LET patch == read_image(z, row, column)
             xp0 == column * tile_sz[2]
             xp1 == Min2(xp0 + tile_sz[2], (column + 1) * tile_sz[2])
             yp0 == row * tile_sz[1]
             yp1 == Min2(yp0 + tile_sz[1], (row + 1) * tile_sz[1])
             x0a == Max2(r.x0, xp0)
             x1a == Min2(r.x1, xp1)
             y0a == Max2(r.y0, yp0)
             y1a == Min2(r.y1, yp1)
         IN [q \in DOMAIN sl |->
                IF /\ y0a - r.y0 <= q[1] /\ q[1] < y1a - r.y0
                   /\ x0a - r.x0 <= q[2] /\ q[2] < x1a - r.x0
                THEN patch[<<q[1] + r.y0 - yp0, q[2] + r.x0 - xp0>>]
                ELSE sl[q]]

\* read_image raises for the tile: the file exists and cannot be decoded
ReadRaises(z, row, column) == <<z, row, column>> \in corrupt \ absent

\* the tiles of one slice in loop order, up to the first read that raises
RECURSIVE PasteTiles(_, _, _, _)
PasteTiles(sl, r, z, rc) ==
    IF rc = <<>> \/ ReadRaises(z, Head(rc)[1], Head(rc)[2]) THEN sl
    ELSE PasteTiles(PasteTile(sl, r, z, Head(rc)[1], Head(rc)[2]), r, z, Tail(rc))

\* for row in range(r0, r1): for column in range(c0, c1), in loop order
RECURSIVE RowColumns(_, _, _, _)
RowColumns(row, r1, c0, c1) ==
    IF row >= r1 THEN <<>>
    ELSE [k \in 1..Len(PyRange(c0, c1, 1)) |-> <<row, PyRange(c0, c1, 1)[k]>>]
         \o RowColumns(row + 1, r1, c0, c1)

\* one iteration of the loop over z; an exception of read_image leaves the
\* function at once (no handler, no finally)
ReadSlice ==
    /\ tstat = "loop"
    /\ iz < Len(LoopZ(req))
    /\ LET z == LoopZ(req)[iz + 1]
           c0 == FloorDiv(req.x0, tile_sz[2])
           c1 == CeilDiv(req.x1, tile_sz[2])
           r0 == FloorDiv(req.y0, tile_sz[1])
           r1 == CeilDiv(req.y1, tile_sz[1])
           rc == RowColumns(r0, r1, c0, c1)
       IN /\ result' = [result EXCEPT ![iz + 1] = PasteTiles(@, req, z, rc)]
          /\ IF \E k \in 1..Len(rc) : ReadRaises(z, rc[k][1], rc[k][2])
             THEN tstat' = "OSError" /\ UNCHANGED iz
             ELSE iz' = iz + 1 /\ UNCHANGED tstat
    /\ UNCHANGED <<req, absent, corrupt, fid, assembled, mergeVars, bboxVars, h5Vars>>

IsBlank(sl) == \A q \in DOMAIN sl : ~(sl[q] > 0)

\* the two scans of the blank-slice repair (0-based slice indices)
RECURSIVE ScanUp(_, _, _)
ScanUp(res, blank_st, blank_lt) ==
    IF blank_st <= blank_lt /\ IsBlank(res[blank_st + 1])
    THEN ScanUp(res, blank_st + 1, blank_lt) ELSE blank_st

RECURSIVE ScanDown(_, _, _)
ScanDown(res, blank_st, blank_lt) ==
    IF blank_lt >= blank_st /\ IsBlank(res[blank_lt + 1])
    THEN ScanDown(res, blank_st, blank_lt - 1) ELSE blank_lt

\* for z in range(blank_st + 1, blank_lt): a blank slice takes its predecessor
RECURSIVE FillInterior(_, _, _)
FillInterior(res, z, blank_lt) ==
    IF z >= blank_lt THEN res
    ELSE FillInterior(IF IsBlank(res[z + 1]) THEN [res EXCEPT ![z + 1] = res[z]] ELSE res,
                      z + 1, blank_lt)

\* the blank-slice repair of an in-memory result: the repaired array, or the
\* ValueError of assigning the empty result[-1:0] to result[0:]
BlankRepair(res) ==
    LET n == Len(res)
        blank_st == ScanUp(res, 0, n - 1)
    IN IF blank_st = n
       THEN [kind |-> "returned", res |-> res]
       ELSE LET res1 == [i \in 1..n |-> IF i - 1 < blank_st THEN res[blank_st + 1] ELSE res[i]]
                blank_lt == ScanDown(res1, blank_st, n - 1)
            IN IF blank_lt = 0
               THEN [kind |-> "ValueError", res |-> res1]
               ELSE LET res2 == [i \in 1..n |->
                                    IF i - 1 >= blank_lt THEN res1[blank_lt] ELSE res1[i]]
                    IN [kind |-> "returned",
                        res |-> FillInterior(res2, blank_st + 1, blank_lt)]

\* after the loop: the blank case (when tile_blank is set), fid.close() when
\* there is an output file, and the return
FinishTile ==
    /\ tstat = "loop"
    /\ iz = Len(LoopZ(req))
    /\ assembled' = result
    /\ IF req.tile_blank # ""
       THEN /\ result' = BlankRepair(result).res
            /\ tstat' = BlankRepair(result).kind
       ELSE /\ tstat' = "returned"
            /\ UNCHANGED result
    /\ fid' = IF fid = "open" /\ tstat' = "returned" THEN "closed" ELSE fid
    /\ UNCHANGED <<req, absent, corrupt, iz, mergeVars, bboxVars, h5Vars>>

NextTile == ReadSlice \/ FinishTile

SpecTile == InitTile /\ [][NextTile]_vars

----------------------------------------------------------------------------
(* read_tile_h5_by_bbox (data/util/tile.py): 3D chunks, cid = -1, zstep = 1, *)
(* tile_step = 1, h5_func = None                                             *)

NumBlocks == 2
IdBits == 4

\* zyx_sz, zyx0, and the number of row and column blocks on disk
zyx_sz == <<2, 1, 2>>
zyx0 == <<0, 0, 0>>
GridYX == <<1, 2>>

Chunks == (0..(NumBlocks - 1)) \X (0..(GridYX[1] - 1)) \X (0..(GridYX[2] - 1))

\* the integer dtype of the chunks and of the result: arithmetic wraps at 2^IdBits
Wrap(v) == v % (2 ^ IdBits)

\* the dataset of chunk c at local index <<lz, ly, lx>>: its two local ids,
\* alternating along x
ChunkValue(lab, c, lz, ly, lx) == IF lx % 2 = 0 THEN lab[c][1] ELSE lab[c][2]

NoMask == [isNone |-> TRUE, data |-> <<>>]

Box3(nz, ny, nx) == (0..(nz - 1)) \X (0..(ny - 1)) \X (0..(nx - 1))

\* np.zeros for the three output modes: the whole region, or (per-slice images)
\* the buffer of zyx_sz[0] + max(zz[:2]) slices
InitResult(r) ==
    IF r.mode = "img"
    THEN [q \in Box3(zyx_sz[1] + Max2(r.zz[1], r.zz[2]), r.y1 - r.y0, r.x1 - r.x0) |-> 0]
    ELSE [q \in Box3(r.z1 - r.z0, r.y1 - r.y0, r.x1 - r.x0) |-> 0]

\* the block ranges of the three axes
C0(r) == Max2(0, r.x0 - zyx0[3]) \div zyx_sz[3]
C1(r) == (r.x1 - zyx0[3] + zyx_sz[3] - 1) \div zyx_sz[3]
R0(r) == Max2(0, r.y0 - zyx0[2]) \div zyx_sz[2]
R1(r) == (r.y1 - zyx0[2] + zyx_sz[2] - 1) \div zyx_sz[2]
D0(r) == Max2(0, r.z0 - zyx0[1] - r.zz[1]) \div zyx_sz[1]
D1(r) == LET d1 == (r.z1 - zyx0[1] - r.zz[1] + zyx_sz[1] - 1) \div zyx_sz[1]
         IN IF r.zz[3] > 0 THEN Min2(r.zz[3], d1) ELSE d1

ZBlocks(r) == PyRange(D0(r), D1(r), 1)

\* the z extent of block zid on disk and its part inside the request
Zp0(r, zid) == zid * zyx_sz[1] + zyx0[1] + (IF zid # 0 THEN r.zz[1] ELSE 0)
Zp1(r, zid) == (zid + 1) * zyx_sz[1] + zyx0[1] + r.zz[1] + (IF zid = r.zz[3] THEN r.zz[2] ELSE 0)
Z0a(r, zid) == Max2(r.z0, Zp0(r, zid))
Z1a(r, zid) == Min2(r.z1, Zp1(r, zid))

\* the state threaded through the chunks of one z-slab
SlabState(res, m, log, err) == [res |-> res, mid |-> m, log |-> log, err |-> err]

\* the loop body for chunk <<zid, yid, xid>>: skipped when the file is absent;
\* h5py.File raises when the file exists and is not a readable container;
\* else the sub-block is read, offset by mid (acc_id) and written to result
CompositeChunk(st, r, lab, zid, yid, xid) ==
    IF <<zid, yid, xid>> \notin Chunks \ habsent \/ st.err # "" THEN st
    ELSE IF <<zid, yid, xid>> \in hcorrupt THEN [st EXCEPT !.err = "OSError"]
    ELSE LET zp0 == Zp0(r, zid)
             z0a == Z0a(r, zid)
             z1a == Z1a(r, zid)
             yp0 == yid * zyx_sz[2] + zyx0[2]
             yp1 == (yid + 1) * zyx_sz[2] + zyx0[2]
             y0a == Max2(r.y0, yp0)
             y1a == Min2(r.y1, yp1)
             xp0 == xid * zyx_sz[3] + zyx0[3]
             xp1 == (xid + 1) * zyx_sz[3] + zyx0[3]
             x0a == Max2(r.x0, xp0)
             x1a == Min2(r.x1, xp1)
             region == (z0a..(z1a - 1)) \X (y0a..(y1a - 1)) \X (x0a..(x1a - 1))
             tmp == [q \in region |->
                        ChunkValue(lab, <<zid, yid, xid>>, q[1] - zp0, q[2] - yp0, q[3] - xp0)]
         IN IF r.acc_id /\ region = {}
            THEN [st EXCEPT !.err = "ValueError"]
            ELSE LET tmp_max == SetMax({tmp[q] : q \in region})
                     tmp2 == IF r.acc_id
                             THEN [q \in region |->
                                      IF tmp[q] > 0 THEN Wrap(tmp[q] + st.mid) ELSE tmp[q]]
                             ELSE tmp
                     mid2 == IF r.acc_id THEN Wrap(st.mid + tmp_max) ELSE st.mid
                     zoff == IF r.mode = "img" THEN z0a ELSE r.z0
                     res2 == [k \in DOMAIN st.res |->
                                 IF <<k[1] + zoff, k[2] + r.y0, k[3] + r.x0>> \in region
                                 THEN tmp2[<<k[1] + zoff, k[2] + r.y0, k[3] + r.x0>>]
                                 ELSE st.res[k]]
                 IN SlabState(res2, mid2,
                              Append(st.log, [chunk |-> <<zid, yid, xid>>,
                                              vals |-> {tmp2[q] : q \in region} \ {0},
                                              mid0 |-> st.mid, mid1 |-> mid2]),
                              "")

RECURSIVE CompositeChunks(_, _, _, _, _)
CompositeChunks(st, r, lab, zid, yx) ==
    IF yx = <<>> THEN st
    ELSE CompositeChunks(CompositeChunk(st, r, lab, zid, Head(yx)[1], Head(yx)[2]),
                         r, lab, zid, Tail(yx))

\* the mask left out: the slab stays as composited
ApplyMaskSkipped(res, r, zid) == res

\* the mask multiplied into the slab that was just composited
ApplyMask(res, r, zid) ==
    IF r.mask.isNone THEN res
    ELSE LET zoff == IF r.mode = "img" THEN Z0a(r, zid) ELSE r.z0
         IN [k \in DOMAIN res |->
                IF Z0a(r, zid) <= k[1] + zoff /\ k[1] + zoff < Z1a(r, zid)
                THEN res[k] * r.mask.data[<<k[1] + zoff - r.z0, k[2], k[3]>>]
                ELSE res[k]]

\* write_image(output_file % z, result[z - z0a]) for the slab's z
EmitSlab(em, res, r, zid) ==
    [z \in DOMAIN em \cup (Z0a(r, zid)..(Z1a(r, zid) - 1)) |->
        IF Z0a(r, zid) <= z /\ z < Z1a(r, zid)
        THEN [p \in (0..(r.y1 - r.y0 - 1)) \X (0..(r.x1 - r.x0 - 1)) |->
                 res[<<z - Z0a(r, zid), p[1], p[2]>>]]
        ELSE em[z]]

\* one iteration of the loop over zid: the chunks of the slab, the mask, and in
\* per-slice-image mode the images of the slab
H5Slab ==
    /\ hstat = "loop"
    /\ hz < Len(ZBlocks(hreq))
    /\ LET zid == ZBlocks(hreq)[hz + 1]
           st == CompositeChunks(SlabState(hres, mid, hlog, ""), hreq, labels, zid,
                                 RowColumns(R0(hreq), R1(hreq), C0(hreq), C1(hreq)))
       IN IF st.err # ""
          THEN /\ hstat' = st.err
               /\ hres' = st.res
               /\ UNCHANGED <<mid, hlog, emitted, hz, hcomp>>
          ELSE /\ hres' = ApplyMask(st.res, hreq, zid)
               /\ mid' = st.mid
               /\ hlog' = st.log
               /\ emitted' = IF hreq.mode = "img"
                             THEN EmitSlab(emitted, ApplyMask(st.res, hreq, zid), hreq, zid)
                             ELSE emitted
               /\ hcomp' = IF hreq.mode = "img"
                           THEN EmitSlab(hcomp, st.res, hreq, zid)
                           ELSE hcomp
               /\ hz' = hz + 1
               /\ UNCHANGED hstat
    /\ UNCHANGED <<hreq, labels, habsent, hcorrupt, fid_out, mergeVars, bboxVars, tileVars>>

\* after the loop: `if '.h5' in output_file` (a TypeError when output_file is
\* None), fid_out.close(), return result
H5Finish ==
    /\ hstat = "loop"
    /\ hz = Len(ZBlocks(hreq))
    /\ hstat' = IF hreq.mode = "mem" THEN "TypeError" ELSE "returned"
    /\ fid_out' = IF hreq.mode = "h5" THEN "closed" ELSE fid_out
    /\ UNCHANGED <<hreq, labels, habsent, hcorrupt, hres, mid, emitted, hz, hcomp, hlog,
                   mergeVars, bboxVars, tileVars>>

NextH5 == H5Slab \/ H5Finish

H5Requests ==
    {[z0 |-> z0, z1 |-> z1, y0 |-> 0, y1 |-> GridYX[1] * zyx_sz[2], x0 |-> x0, x1 |-> x1,
      zz |-> <<0, 0, -1>>, acc_id |-> acc, mode |-> mode, mask |-> NoMask] :
        z0 \in 0..(NumBlocks * zyx_sz[1] - 1), z1 \in 1..(NumBlocks * zyx_sz[1]),
        x0 \in 0..(GridYX[2] * zyx_sz[3] - 1), x1 \in 1..(GridYX[2] * zyx_sz[3]),
        acc \in BOOLEAN, mode \in {"mem", "h5", "img"}}

H5Start ==
    /\ fid_out = IF hreq.mode = "h5" THEN "open" ELSE "none"
    /\ hres = InitResult(hreq)
    /\ mid = 0
    /\ emitted = <<>>
    /\ hz = 0
    /\ hcomp = <<>>
    /\ hlog = <<>>
    /\ hstat = "loop"
    /\ MergeIdle /\ BBoxIdle /\ TileIdle

\* the index of a chunk in the grid, counted from 0
ChunkNo(c) == (c[1] * GridYX[1] + c[2]) * GridYX[2] + c[3]

\* any region and output mode, any set of missing chunk files; chunk number k
\* holds the local ids 2k+1 and 2k+2
InitH5 ==
    /\ hreq \in {r \in H5Requests : r.z0 < r.z1 /\ r.x0 < r.x1}
    /\ labels = [c \in Chunks |-> <<2 * ChunkNo(c) + 1, 2 * ChunkNo(c) + 2>>]
    /\ habsent \in SUBSET Chunks
    /\ hcorrupt = {}
    /\ H5Start

SpecH5 == InitH5 /\ [][NextH5]_vars

\* the local ids a chunk may hold: background, small ids, and the largest
\* value of the dtype
LocalIds == {0, 1, 2, 2 ^ IdBits - 1}

\* id accumulation over the whole volume, for any local ids in the chunks
InitH5Acc ==
    /\ hreq \in {r \in H5Requests :
                    /\ r.z0 = 0 /\ r.z1 = NumBlocks * zyx_sz[1]
                    /\ r.x0 = 0 /\ r.x1 = GridYX[2] * zyx_sz[3]
                    /\ r.acc_id}
    /\ labels \in [Chunks -> {p \in LocalIds \X LocalIds : p[1] <= p[2]}]
    /\ habsent = {}
    /\ hcorrupt = {}
    /\ H5Start

SpecH5Acc == InitH5Acc /\ [][NextH5]_vars

----------------------------------------------------------------------------
(* The output containers of the two assemblers *)

\* read_tile_image_by_bbox over full-width regions, to memory or to an h5 file,
\* with at most one slice of unreadable tile files; the blank case is off
\* (tile_blank = ""), so that no statement about indexing an h5py dataset
\* with an empty selection is needed
InitTileFile ==
    /\ req \in {r \in Requests : /\ r.z0 < r.z1 /\ r.y0 < r.y1
                                 /\ r.x0 = 0 /\ r.x1 = Grid[2] * tile_sz[2]
                                 /\ r.tile_blank = ""}
    /\ \E S \in SUBSET (0..(NumSlices - 1)) : absent = TilesOfSlices(S)
    /\ \E S \in {{}} \cup {{z} : z \in 0..(NumSlices - 1)} : corrupt = TilesOfSlices(S)
    /\ \E f \in {"none", "open"} : TileStart(f)

\* read_tile_h5_by_bbox over full-width regions in the three output modes,
\* with at most one unreadable chunk file
InitH5File ==
    /\ hreq \in {r \in H5Requests : /\ r.z0 < r.z1
                                    /\ r.x0 = 0 /\ r.x1 = GridYX[2] * zyx_sz[3]
                                    /\ ~r.acc_id}
    /\ labels = [c \in Chunks |-> <<2 * ChunkNo(c) + 1, 2 * ChunkNo(c) + 2>>]
    /\ habsent \in SUBSET Chunks
    /\ hcorrupt \in {{}} \cup {{c} : c \in Chunks}
    /\ H5Start

MaxZeros == 1

\* the binary masks of the shape of the region with at most MaxZeros zeros
Masks(r) ==
    {[isNone |-> FALSE,
      data |-> [k \in Box3(r.z1 - r.z0, r.y1 - r.y0, r.x1 - r.x0) |->
                   IF k \in Z THEN 0 ELSE 1]] :
        Z \in {S \in SUBSET Box3(r.z1 - r.z0, r.y1 - r.y0, r.x1 - r.x0) :
                  Cardinality(S) <= MaxZeros}}

\* per-slice images of a full-width region with a mask, at most one chunk
\* file missing
InitH5Mask ==
    /\ \E r \in {q \in H5Requests : /\ q.z0 < q.z1
                                     /\ q.x0 = 0 /\ q.x1 = GridYX[2] * zyx_sz[3]
                                     /\ ~q.acc_id /\ q.mode = "img"} :
          \E m \in Masks(r) : hreq = [r EXCEPT !.mask = m]
    /\ labels = [c \in Chunks |-> <<2 * ChunkNo(c) + 1, 2 * ChunkNo(c) + 2>>]
    /\ habsent \in {{}} \cup {{c} : c \in Chunks}
    /\ hcorrupt = {}
    /\ H5Start

SpecH5Mask == InitH5Mask /\ [][NextH5]_vars

MaxHalo == 1

\* requests with halo parameters zz = [lead, trail, last], written to an h5
\* file or to per-slice images: the volume has NumBlocks z-blocks, so
\* last = NumBlocks - 1, and lead + trail extra slices
H5HaloRequests ==
    {[z0 |-> z0, z1 |-> z1, y0 |-> 0, y1 |-> GridYX[1] * zyx_sz[2],
      x0 |-> 0, x1 |-> GridYX[2] * zyx_sz[3],
      zz |-> <<lead, trail, NumBlocks - 1>>, acc_id |-> FALSE, mode |-> mode,
      mask |-> NoMask] :
        z0 \in 0..(NumBlocks * zyx_sz[1] + 2 * MaxHalo - 1),
        z1 \in 1..(NumBlocks * zyx_sz[1] + 2 * MaxHalo),
        lead \in 0..MaxHalo, trail \in 0..MaxHalo, mode \in {"h5", "img"}}

\* any z range inside the volume with its halo, every chunk file present
InitH5Halo ==
    /\ hreq \in {r \in H5HaloRequests :
                    /\ r.z0 < r.z1
                    /\ r.z1 <= NumBlocks * zyx_sz[1] + r.zz[1] + r.zz[2]}
    /\ labels = [c \in Chunks |-> <<2 * ChunkNo(c) + 1, 2 * ChunkNo(c) + 2>>]
    /\ habsent = {}
    /\ hcorrupt = {}
    /\ H5Start

SpecH5Halo == InitH5Halo /\ [][NextH5]_vars

InitFile == InitTileFile \/ InitH5File

NextFile == NextTile \/ NextH5

SpecFile == InitFile /\ [][NextFile]_vars

----------------------------------------------------------------------------
(* Properties of the merge *)

TileOrder == SortedSeq(TileIdx)

\* box r is the smallest box containing the boxes p and q
SmallestContaining(r, p, q) ==
    /\ Len(r) = Len(p)
    /\ \A k \in 1..Len(r) :
          IF k % 2 = 1
          THEN r[k] <= p[k] /\ r[k] <= q[k] /\ r[k] \in {p[k], q[k]}
          ELSE r[k] >= p[k] /\ r[k] >= q[k] /\ r[k] \in {p[k], q[k]}

SameTable(s, t) ==
    /\ s.isNone = t.isNone
    /\ UniqueIds(s) /\ UniqueIds(t)
    /\ AsMap(s) = AsMap(t)

\* C1: merging two well-formed tables gives exactly one row per id of the union
\* of their ids; a row of an id in one table only is that table's row, and the
\* box of an id in both is the smallest box containing both boxes.
C1_MergeIsUnionOfSmallestBoxes ==
    (last.kind # "none" /\ ~last.a.isNone /\ ~last.b.isNone
        /\ UniqueIds(last.a) /\ UniqueIds(last.b)) =>
        /\ UniqueIds(last.r)
        /\ ~last.r.isNone
        /\ IdsOf(last.r) = IdsOf(last.a) \cup IdsOf(last.b)
        /\ \A id \in IdsOf(last.r) :
              IF id \in IdsOf(last.a) /\ id \in IdsOf(last.b)
              THEN SmallestContaining(Tail(RowOf(last.r, id)),
                                      Tail(RowOf(last.a, id)), Tail(RowOf(last.b, id)))
              ELSE IF id \in IdsOf(last.a)
                   THEN RowOf(last.r, id) = RowOf(last.a, id)
                   ELSE RowOf(last.r, id) = RowOf(last.b, id)

\* a merge of a table with a shared id (whose merged box is larger than both
\* boxes) and an id of its own
C1_Witness ==
    /\ last.kind = "fold" /\ ~last.a.isNone
    /\ \E id \in IdsOf(last.a) \cap IdsOf(last.b) :
          /\ RowOf(last.r, id) # RowOf(last.a, id)
          /\ RowOf(last.r, id) # RowOf(last.b, id)
    /\ IdsOf(last.a) \ IdsOf(last.b) # {}

\* C2: once every tile table is folded in, the running table is the one the
\* fold in file-index order gives (same ids, same box per id), whatever the
\* order and the grouping of the merges were.
C2_FoldOrderIndependent ==
    parts = {} => SameTable(out, FoldInOrder(NoneT, TileOrder))

\* the three tiles were merged with each other before the only fold, all are
\* non-empty, and the rows come out in another order than in file-index order
C2_Witness ==
    /\ parts = {} /\ last.kind = "fold" /\ last.a.isNone
    /\ \A i \in TileIdx : Len(tiles[i]) > 0
    /\ out.rows # FoldInOrder(NoneT, TileOrder).rows
    /\ \E i, j \in TileIdx : i # j /\ tiles[i] # tiles[j]
                               /\ IdsOf(Tab(tiles[i])) \cap IdsOf(Tab(tiles[j])) # {}

\* C3: a table merged with itself is that table, and merging the running table
\* again with a tile already folded into it leaves ids and boxes unchanged.
C3_MergeIdempotent ==
    /\ last.kind = "self" =>
          /\ Len(last.r.rows) = Len(last.a.rows)
          /\ SameTable(last.r, last.a)
    /\ last.kind = "refold" =>
          /\ Len(last.r.rows) = Len(last.a.rows)
          /\ SameTable(last.r, last.a)

\* a table of two rows merged with itself
C3_Witness ==
    /\ last.kind = "self"
    /\ Len(last.a.rows) >= 2
    /\ \E i \in 1..Len(last.a.rows) : last.a.rows[i][2] < last.a.rows[i][3]

----------------------------------------------------------------------------
(* Properties of compute_bbox_all *)

RowsWithId(rows, k) == {i \in 1..Len(rows) : rows[i][1] = k}

\* C4: without an id set, every positive id k of a 2D or 3D label map has exactly
\* one row in the table compute_bbox_all returns, and the columns after the id
\* are compute_bbox(L == k): the min and max coordinate of k on each axis.
C4_RowPerIdEqualsComputeBBox ==
    (bbres.kind # "pending" /\ uid.isNone /\ ndim(seg) \in {2, 3}) =>
        \A k \in {x \in Values(seg) : x > 0} :
            /\ bbres.kind = "table"
            /\ Cardinality(RowsWithId(bbres.rows, k)) = 1
            /\ \A i \in RowsWithId(bbres.rows, k) :
                  Tail(bbres.rows[i]) = compute_bbox(EqMask(seg, k)).box

\* a 3D label map with two ids, one of them spread over two slices of an axis
C4_Witness ==
    /\ bbres.kind = "table" /\ uid.isNone /\ ndim(seg) = 3
    /\ Len(bbres.rows) = 2
    /\ \E i \in 1..2 : \E k \in {2, 4, 6} : bbres.rows[i][k] < bbres.rows[i][k + 1]

\* C5: with an id set U the rows returned are those of exactly the ids of U
\* that have a pixel or voxel in the label map.
C5_RowsAreUidsWithForeground ==
    (bbres.kind \in {"table", "None"} /\ ~uid.isNone) =>
        {bbres.rows[i][1] : i \in 1..Len(bbres.rows)} =
            {uid.ids[k] : k \in 1..Len(uid.ids)} \cap Values(seg)

\* C6: an array of a rank other than 2 or 3 makes compute_bbox_all raise
\* ValueError, and no table is returned.
C6_BadRankRaisesValueError ==
    (bbres.kind # "pending" /\ ndim(seg) \notin {2, 3}) => bbres.kind = "ValueError"

----------------------------------------------------------------------------
(* Properties of read_tile_image_by_bbox *)

\* C7: with ratio 1, no relabel table, no blank repair and every tile file
\* present, the i-th requested slice z of range(z0, z1, zstep), z1 <=
\* len(filenames), holds at [y - y0, x - x0] the pixel (y mod tile_h, x mod
\* tile_w) of tile (y div tile_h, x div tile_w) of slice z.
C7_RegionReproducesTiles ==
    (tstat # "loop" /\ req.tile_blank = "" /\ absent = {} /\ req.z1 <= NumSlices) =>
        /\ tstat = "returned"
        /\ \A i \in 1..Len(PyRange(req.z0, req.z1, req.zstep)) :
           \A y \in req.y0..(req.y1 - 1) : \A x \in req.x0..(req.x1 - 1) :
              result[i][<<y - req.y0, x - req.x0>>] =
                  read_image(PyRange(req.z0, req.z1, req.zstep)[i],
                             y \div tile_sz[1], x \div tile_sz[2])
                      [<<y % tile_sz[1], x % tile_sz[2]>>]

NonBlank(res) == {i \in 1..Len(res) : ~IsBlank(res[i])}

\* the blank slices of a stack are a leading run and/or a trailing run only
BlankOnlyAtEnds(res) ==
    /\ NonBlank(res) # {}
    /\ \A i \in 1..Len(res) :
          (SetMin(NonBlank(res)) <= i /\ i <= SetMax(NonBlank(res))) => i \in NonBlank(res)

\* C8: the repair of a stack with a non-blank slice and blank slices only at
\* its two ends returns a stack without blank slice, where every leading blank
\* slice became the first non-blank slice and every trailing blank slice the
\* last non-blank slice.
C8_EndBlanksTakeNearestSlice ==
    (tstat # "loop" /\ req.tile_blank # "" /\ BlankOnlyAtEnds(assembled)) =>
        /\ tstat = "returned"
        /\ NonBlank(result) = 1..Len(result)
        /\ \A i \in 1..Len(result) :
              /\ i < SetMin(NonBlank(assembled)) =>
                    result[i] = assembled[SetMin(NonBlank(assembled))]
              /\ i > SetMax(NonBlank(assembled)) =>
                    result[i] = assembled[SetMax(NonBlank(assembled))]

----------------------------------------------------------------------------
(* Properties of read_tile_h5_by_bbox *)

\* C9: with acc_id, a positive value written for one chunk is never a positive
\* value written for another chunk of the call, and the running maximum never
\* decreases, whatever local ids the chunks hold in their dtype.
C9_AccumulatedIdsDistinct ==
    (hstat # "" /\ hreq.acc_id) =>
        /\ \A i, j \in 1..Len(hlog) : i # j => hlog[i].vals \cap hlog[j].vals = {}
        /\ \A i \in 1..Len(hlog) : hlog[i].mid1 >= hlog[i].mid0

\* the chunks whose footprint intersects the requested region
Intersecting(r) ==
    {c \in Chunks : /\ \E k \in 1..Len(ZBlocks(r)) : ZBlocks(r)[k] = c[1]
                    /\ R0(r) <= c[2] /\ c[2] < R1(r)
                    /\ C0(r) <= c[3] /\ c[3] < C1(r)}

\* the voxels of the request inside chunk c
Footprint(r, c) ==
    (Z0a(r, c[1])..(Z1a(r, c[1]) - 1))
    \X (Max2(r.y0, c[2] * zyx_sz[2] + zyx0[2])..(Min2(r.y1, (c[2] + 1) * zyx_sz[2] + zyx0[2]) - 1))
    \X (Max2(r.x0, c[3] * zyx_sz[3] + zyx0[3])..(Min2(r.x1, (c[3] + 1) * zyx_sz[3] + zyx0[3]) - 1))

\* C10: in every output mode a missing chunk file does not stop the assembly
\* (the other intersecting chunks are composited), and every output voxel of
\* the missing chunk's footprint is 0 in the array or in the emitted images.
C10_MissingChunkStaysZero ==
    (hstat \notin {"", "loop"}) =>
        /\ \A c \in Intersecting(hreq) \ habsent : \E i \in 1..Len(hlog) : hlog[i].chunk = c
        /\ \A c \in Intersecting(hreq) \cap habsent : \A q \in Footprint(hreq, c) :
              IF hreq.mode = "img"
              THEN emitted[q[1]][<<q[2] - hreq.y0, q[3] - hreq.x0>>] = 0
              ELSE hres[<<q[1] - hreq.z0, q[2] - hreq.y0, q[3] - hreq.x0>>] = 0

----------------------------------------------------------------------------
(* Properties of the output containers *)

\* C11: in both assemblers, an output container file that was opened at the
\* start of the call is closed when the call has exited, whether it returned
\* or raised
C11_ContainerClosedAtExit ==
    /\ (tstat \notin {"", "loop"} /\ fid # "none") => fid = "closed"
    /\ (hstat \notin {"", "loop"} /\ fid_out # "none") => fid_out = "closed"
----------------------------------------------------------------------------
(* Properties of the in-memory mode of read_tile_h5_by_bbox *)

\* the request is exactly the footprint of chunk c
WholeChunk(r, c) ==
    /\ r.z0 = c[1] * zyx_sz[1] + zyx0[1] /\ r.z1 = r.z0 + zyx_sz[1]
    /\ r.y0 = c[2] * zyx_sz[2] + zyx0[2] /\ r.y1 = r.y0 + zyx_sz[2]
    /\ r.x0 = c[3] * zyx_sz[3] + zyx0[3] /\ r.x1 = r.x0 + zyx_sz[3]

\* C12: a call of read_tile_h5_by_bbox with output_file = None ends by
\* returning the array of shape (z1 - z0, y1 - y0, x1 - x0); without id
\* accumulation, a request equal to one whole chunk returns the chunk's data
C12_InMemoryReturnsRegion ==
    (hstat \notin {"", "loop"} /\ hreq.mode = "mem") =>
        /\ hstat = "returned"
        /\ DOMAIN hres = Box3(hreq.z1 - hreq.z0, hreq.y1 - hreq.y0, hreq.x1 - hreq.x0)
        /\ \A c \in Chunks \ habsent :
              (~hreq.acc_id /\ WholeChunk(hreq, c)) =>
                  \A k \in DOMAIN hres : hres[k] = ChunkValue(labels, c, k[1], k[2], k[3])
----------------------------------------------------------------------------
(* Properties of the z-blocks under halo parameters *)

\* the slices of z-block b: block 0 starts at its nominal offset, later blocks
\* start lead slices later, block last ends trail slices later
BlockSlices(r, b) ==
    LET lo == b * zyx_sz[1] + zyx0[1] + (IF b # 0 THEN r.zz[1] ELSE 0)
        hi == (b + 1) * zyx_sz[1] + zyx0[1] + r.zz[1] + (IF b = r.zz[3] THEN r.zz[2] ELSE 0)
    IN lo..(hi - 1)

\* the z-blocks the loop has visited
Visited == {ZBlocks(hreq)[k] : k \in 1..hz}

\* C13: with zz = [lead, trail, last], when the call has ended every z of
\* [z0, z1) that lies in the slices of some block 0..last is inside the clipped
\* interval [z0a, z1a) of exactly one visited z-block
C13_EveryZInOneVisitedBlock ==
    (hstat \notin {"", "loop"} /\ hreq.zz[3] > 0) =>
        \A z \in hreq.z0..(hreq.z1 - 1) :
            (\E b \in 0..hreq.zz[3] : z \in BlockSlices(hreq, b)) =>
                Cardinality({b \in Visited : Z0a(hreq, b) <= z /\ z < Z1a(hreq, b)}) = 1
----------------------------------------------------------------------------
(* Properties of the mask in per-slice-image mode *)

\* the z of the slabs the loop has gone through
SlabsDone == UNION {Z0a(hreq, b)..(Z1a(hreq, b) - 1) : b \in Visited}

\* C14: with a mask in per-slice-image mode, the images written so far are
\* those of the slabs that were composited and masked, and every image is, pixel
\* by pixel, the slice as composited times mask[z - z0]
C14_EmittedIsMaskedComposite ==
    (hstat # "" /\ hreq.mode = "img" /\ ~hreq.mask.isNone) =>
        /\ DOMAIN emitted = SlabsDone
        /\ DOMAIN hcomp = SlabsDone
        /\ \A z \in DOMAIN emitted : \A p \in DOMAIN emitted[z] :
              emitted[z][p] = hcomp[z][p] * hreq.mask.data[<<z - hreq.z0, p[1], p[2]>>]

\* a call over two slabs has returned, and the mask has removed a positive
\* pixel of the composited slice from an image
C14_Witness ==
    /\ hstat = "returned" /\ hreq.mode = "img" /\ ~hreq.mask.isNone
    /\ hz >= 2
    /\ \E z \in DOMAIN emitted : \E p \in DOMAIN emitted[z] :
          /\ hcomp[z][p] > 0
          /\ hreq.mask.data[<<z - hreq.z0, p[1], p[2]>>] = 0
          /\ emitted[z][p] = 0
----------------------------------------------------------------------------
(* Properties of the rounding of merge_bbox_tile *)

\* C15: when merge_bbox_tile has rounded the table to a ratio above 1, in every
\* row and for the y and the x axis the rounded min is at most the min, the
\* rounded max is at least the max, and the rounded min is at most the rounded max
C15_RoundedBoxContainsBox ==
    (ret.kind = "returned" /\ ret.ratio > 1) =>
        \A i \in 1..Len(ret.table.rows) : \A k \in {4, 6} :
            /\ ret.table.rows[i][k] <= out.rows[i][k]
            /\ ret.table.rows[i][k + 1] >= out.rows[i][k + 1]
            /\ ret.table.rows[i][k] <= ret.table.rows[i][k + 1]
----------------------------------------------------------------------------
(* Frame of the blank-slice repair *)

\* C16: when read_tile_image_by_bbox has returned with the blank case on, every
\* slice that had a positive pixel when the loop over z ended is the same in
\* the returned array
C16_RepairKeepsNonBlankSlices ==
    (tstat = "returned" /\ req.tile_blank # "") =>
        \A i \in 1..Len(assembled) :
            ~IsBlank(assembled[i]) => result[i] = assembled[i]
====
